---- MODULE Spec2Model ----
(***************************************************************************)
(* A model of the Rako bridge glue of custom_components/rako:              *)
(*   - bridge.py: the registry of listening entities (light sub-map and    *)
(*     fan sub-map kept in hass.data), the listener task the bridge starts *)
(*     and stops, and the dispatcher _state_update;                        *)
(*   - fan.py: the fan entity's cached percentage and availability and its *)
(*     async_set_percentage command.                                       *)
(* Everything runs on one asyncio event loop: a coroutine runs atomically  *)
(* from one suspension point to the next, so every action below is one     *)
(* such run.                                                               *)
(***************************************************************************)
EXTENDS Integers, Sequences, FiniteSets, TLC

\* ------------------------------------------------------------------ bounds

\* Listener tasks ever created by one bridge in a run of the model.
MaxTasks == 2
\* deregister calls suspended in "await listener_task" at the same time.
MaxSuspended == 1
\* Status messages dispatched in a run of the dispatcher specifications.
MaxDispatch == 2
\* Commands counted in a run of consecutive failures of one fan.
MaxRun == 3

\* ---------------------------------------------------------------- entities

None == "None"

\* Three channel lights of room 1 (two of them built for the same channel), the
\* room fan of room 1 and a channel fan built for the channel of a light.
Lights == {"L11", "L11b", "L12"}
Fans == {"F10", "F11"}
Entities == Lights \cup Fans

\* hasattr(entity, "brightness"): a RakoLight has the attribute, a RakoFan not.
HasBrightness(e) == e \in Lights

\* hasattr(entity, "percentage")
HasPercentage(e) == e \in Fans

\* The room an entity was discovered in.
RoomOf(e) == 1

\* The channel of an entity; 0 is the room itself.
ChannelOf(e) == CASE e \in {"L11", "L11b", "F11"} -> 1
                  [] e = "L12" -> 2
                  [] OTHER -> 0

\* util.create_unique_id(mac, room, channel): injective in (room, channel) for
\* the one mac of the bridge.
create_unique_id(room, channel) == <<room, channel>>

\* RakoFan.unique_id (RakoLight.unique_id is built the same way)
unique_id(e) == create_unique_id(RoomOf(e), ChannelOf(e))

\* -------------------------------------------------------------------- state

VARIABLES
    lightMap,      \* hass.data[DOMAIN][mac]["rako_light_map"]: unique id -> light
    fanMap,        \* hass.data[DOMAIN][mac]["rako_fan_map"]: unique id -> fan
    listenerTask,  \* hass.data[DOMAIN][mac]["rako_listener_task"]: 0 (None) or a task
    tasks,         \* every task created so far: its status
    calls,         \* deregister calls suspended in "await listener_task"
    brightness,    \* RakoLight.brightness of every light
    percentage,    \* RakoFan._percentage of every fan
    available,     \* RakoFan._available of every fan
    errorLogs,     \* per fan: _LOGGER.exception calls in the current run of failures
    failRun,       \* per fan: length of the current run of failed commands
    dispatched,    \* messages the listener has dispatched
    applied,       \* the ChannelStatus applications of the last dispatch, in order
    last           \* the step taken last

vars == <<lightMap, fanMap, listenerTask, tasks, calls, brightness, percentage,
          available, errorLogs, failRun, dispatched, applied, last>>

registryVars == <<lightMap, fanMap>>
taskVars == <<listenerTask, tasks, calls>>
entityVars == <<brightness, percentage>>
fanVars == <<available, errorLogs, failRun>>
dispatchVars == <<dispatched, applied>>

\* A task is live from create_task until its coroutine has returned or raised.
Live == {"pending", "listening", "cancelling"}
Done == {"cancelled", "failed"}

NoMsg == [kind |-> "none", room |-> 0, channel |-> 0, brightness |-> 0, scene |-> 0]

Step(op, e, m, t, raised) ==
    [op |-> op, ent |-> e, msg |-> m, task |-> t, raised |-> raised]

\* ----------------------------------------------------------------- registry

\* dict.update(other): the entries of other replace those of m.
DictUpdate(m, other) == other @@ m

\* The mutated combined map: the light entry shadows the fan entry.
entity_map_light_first(lm, fm) == DictUpdate(DictUpdate(<<>>, fm), lm)

\* RakoBridge._entity_map over the two sub-maps
entity_map(lm, fm) == DictUpdate(DictUpdate(<<>>, lm), fm)

\* dict.get(key) of the combined map
get_listening_entity_in(lm, fm, uid) ==
    IF uid \in DOMAIN entity_map(lm, fm) THEN entity_map(lm, fm)[uid] ELSE None

\* RakoBridge.get_listening_entity
get_listening_entity(uid) == get_listening_entity_in(lightMap, fanMap, uid)

\* m[key] = value
DictSet(m, key, value) == (key :> value) @@ m

\* if key in m: del m[key]
DictDel(m, key) == [k \in DOMAIN m \ {key} |-> m[k]]

\* The mutated add: an entry that is already present is kept.
add_listening_keep(m, e) == IF unique_id(e) \in DOMAIN m THEN m ELSE DictSet(m, unique_id(e), e)

\* RakoBridge._add_listening_light / _add_listening_fan
add_listening(m, e) == DictSet(m, unique_id(e), e)

\* RakoBridge._remove_listening_light / _remove_listening_fan
remove_listening(m, e) == DictDel(m, unique_id(e))

\* len(self._entity_map)
RegistrySize(lm, fm) == Cardinality(DOMAIN entity_map(lm, fm))

\* ------------------------------------------------------------ listener task

\* The mutated start condition: a task for every registration.
starts_listener_always(lm, fm) == TRUE

\* register_for_state_updates: "if len(self._entity_map) == 1"
starts_listener(lm, fm) == RegistrySize(lm, fm) = 1

\* RakoBridge.register_for_state_updates(entity); the coroutine never suspends
\* (listen_for_state_updates only calls asyncio.create_task).
register_for_state_updates(e) ==
    LET lm == IF HasBrightness(e) THEN add_listening(lightMap, e) ELSE lightMap
        fm == IF HasBrightness(e) THEN fanMap ELSE add_listening(fanMap, e)
        start == starts_listener(lm, fm)
    IN /\ start => Len(tasks) < MaxTasks
       /\ lightMap' = lm
       /\ fanMap' = fm
       /\ tasks' = IF start THEN Append(tasks, "pending") ELSE tasks
       /\ listenerTask' = IF start THEN Len(tasks) + 1 ELSE listenerTask
       /\ last' = Step("register", e, NoMsg, IF start THEN Len(tasks) + 1 ELSE 0, FALSE)
       /\ UNCHANGED <<calls, entityVars, fanVars, dispatchVars>>

\* Task.cancel(): a task that is done is left alone.
Cancel(ts, t) == IF ts[t] \in Live THEN [ts EXCEPT ![t] = "cancelling"] ELSE ts

\* The mutated stop: the task is cancelled and not awaited.
stop_awaits_never(status) == FALSE

\* stop_listening_for_state_updates: "await listener_task" suspends the caller
\* while the task is not done.
stop_awaits(status) == status \in Live

\* RakoBridge.deregister_for_state_updates(entity), up to its return or to its
\* suspension in stop_listening_for_state_updates.
deregister_for_state_updates(e) ==
    LET lm == IF HasBrightness(e) THEN remove_listening(lightMap, e) ELSE lightMap
        fm == IF HasBrightness(e) THEN fanMap ELSE remove_listening(fanMap, e)
        stop == RegistrySize(lm, fm) = 0 /\ listenerTask # 0
        t == listenerTask
        wait == stop /\ stop_awaits(tasks[t])
    IN /\ wait => Len(calls) < MaxSuspended
       /\ lightMap' = lm
       /\ fanMap' = fm
       /\ tasks' = IF stop THEN Cancel(tasks, t) ELSE tasks
       /\ calls' = IF wait THEN Append(calls, [ent |-> e, task |-> t]) ELSE calls
       /\ last' = IF wait THEN Step("deregister_suspend", e, NoMsg, t, FALSE)
                  ELSE Step("deregister", e, NoMsg, IF stop THEN t ELSE 0,
                            stop /\ tasks[t] = "failed")
       /\ UNCHANGED <<listenerTask, entityVars, fanVars, dispatchVars>>

\* A suspended deregister call resumes once the task it awaits is done:
\* CancelledError is suppressed, any other exception of the task is raised.
deregister_return(i) ==
    /\ i \in 1..Len(calls)
    /\ tasks[calls[i].task] \in Done
    /\ calls' = [j \in 1..(Len(calls) - 1) |-> IF j < i THEN calls[j] ELSE calls[j + 1]]
    /\ last' = Step("deregister_return", calls[i].ent, NoMsg, calls[i].task,
                    tasks[calls[i].task] = "failed")
    /\ UNCHANGED <<registryVars, listenerTask, tasks, entityVars, fanVars, dispatchVars>>

\* The task's first run: listen_for_state_updates(bridge) enters
\* "async with get_dg_listener(bridge.port)" and awaits the first message.
listener_start(t) ==
    /\ t \in 1..Len(tasks)
    /\ tasks[t] = "pending"
    /\ tasks' = [tasks EXCEPT ![t] = "listening"]
    /\ last' = Step("listener_start", None, NoMsg, t, FALSE)
    /\ UNCHANGED <<registryVars, listenerTask, calls, entityVars, fanVars, dispatchVars>>

\* CancelledError is thrown into the task at its await; the listener is
\* released by the "async with" and the task ends cancelled.
listener_cancelled(t) ==
    /\ t \in 1..Len(tasks)
    /\ tasks[t] = "cancelling"
    /\ tasks' = [tasks EXCEPT ![t] = "cancelled"]
    /\ last' = Step("listener_cancelled", None, NoMsg, t, FALSE)
    /\ UNCHANGED <<registryVars, listenerTask, calls, entityVars, fanVars, dispatchVars>>

\* get_dg_listener or next_pushed_message raises: nothing in the loop catches
\* it and the task ends with the exception.
listener_error(t) ==
    /\ t \in 1..Len(tasks)
    /\ tasks[t] \in {"pending", "listening"}
    /\ tasks' = [tasks EXCEPT ![t] = "failed"]
    /\ last' = Step("listener_error", None, NoMsg, t, FALSE)
    /\ UNCHANGED <<registryVars, listenerTask, calls, entityVars, fanVars, dispatchVars>>

\* --------------------------------------------------------------- dispatcher

\* What the bridge pushes: python_rako's ChannelStatusMessage and
\* SceneStatusMessage (a scene is set on the room, channel 0, or on one
\* channel), another StatusMessage, a message that is no StatusMessage, and None.
Msg(kind, room, channel, b, scene) ==
    [kind |-> kind, room |-> room, channel |-> channel, brightness |-> b, scene |-> scene]

\* Brightness levels the modelled messages carry.
Levels == {0, 127, 255}

ChannelMsgs ==
    {Msg("channel", 1, c, b, 0) : c \in 0..2, b \in Levels} \cup {Msg("channel", 2, 1, 255, 0)}

SceneMsgs ==
    {Msg("scene", 1, c, 0, sc) : c \in {0, 1}, sc \in 0..2} \cup {Msg("scene", 2, 0, 0, 1)}

OtherMsgs == {Msg("status", 1, 1, 0, 0), Msg("unsupported", 0, 0, 0, 0), NoMsg}

Messages == ChannelMsgs \cup SceneMsgs \cup OtherMsgs

\* "message and isinstance(message, StatusMessage)"
IsStatusMessage(m) == m.kind \in {"channel", "scene", "status"}

\* bridge.level_cache.get_channel_levels(room, scene): the (channel, level)
\* pairs python_rako cached for the scene of the room, in its order.
get_channel_levels(room, scene) ==
    CASE room = 1 /\ scene = 0 -> <<<<1, 0>>, <<2, 0>>>>
      [] room = 1 /\ scene = 1 -> <<<<1, 128>>, <<2, 0>>>>
      [] room = 1 /\ scene = 2 -> <<<<2, 255>>, <<1, 64>>>>
      [] room = 2 /\ scene = 1 -> <<<<1, 255>>>>
      [] OTHER -> <<>>

\* python_rako.helpers.convert_to_brightness(scene)
convert_to_brightness(scene) ==
    CASE scene = 1 -> 255
      [] scene = 2 -> 192
      [] scene = 3 -> 128
      [] scene = 4 -> 64
      [] OTHER -> 0

\* The mutated conversion: rounded to the nearest percent.
brightness_to_percentage_rounded(b) == IF b > 0 THEN (200 * b + 255) \div 510 ELSE 0

\* "int((brightness / 255) * 100) if brightness > 0 else 0": int() truncates,
\* and the float product is never below an exact integer quotient on 0..255.
brightness_to_percentage(b) == IF b > 0 THEN (b * 100) \div 255 ELSE 0

\* RakoLight.brightness = value
set_brightness(st, e, b) == [st EXCEPT !.b[e] = b]

\* RakoFan.percentage = value (the setter)
set_percentage(st, e, p) == [st EXCEPT !.p[e] = p]

\* The mutated key: the room of the message is ignored.
message_unique_id_any_room(room, channel) == create_unique_id(1, channel)

\* _state_update: create_unique_id(bridge.mac, status_message.room, status_message.channel)
message_unique_id(room, channel) == create_unique_id(room, channel)

\* The mutated update: a light is handed the percentage a fan would get.
apply_brightness_as_percentage(st, uid, b) ==
    LET ent == get_listening_entity(uid)
    IN IF ent = None THEN st
       ELSE IF HasBrightness(ent) THEN [st EXCEPT !.b[ent] = (b * 100) \div 255]
       ELSE [st EXCEPT !.p[ent] = (b * 100) \div 255]

\* _state_update, from the lookup on: the entity registered under the id takes
\* the brightness, a fan as a percentage; no entity, nothing but a debug log.
apply_brightness(st, uid, b) ==
    LET ent == get_listening_entity(uid)
    IN IF ent = None THEN st
       ELSE IF HasBrightness(ent) THEN set_brightness(st, ent, b)
       ELSE IF HasPercentage(ent) THEN set_percentage(st, ent, brightness_to_percentage(b))
       ELSE st

\* _state_update(bridge, ChannelStatusMessage(room, channel, b))
state_update_channel(st, room, channel, b) ==
    apply_brightness([st EXCEPT !.log = Append(@, <<room, channel, b>>)],
                     message_unique_id(room, channel), b)

\* The mutated loop: it stops after the first pair.
fan_out_first(st, room, levels) ==
    IF levels = <<>> THEN st
    ELSE state_update_channel(st, room, levels[1][1], levels[1][2])

\* _state_update: "for _channel, _brightness in get_channel_levels(...)"
RECURSIVE fan_out(_, _, _)
fan_out(st, room, levels) ==
    IF levels = <<>> THEN st
    ELSE fan_out(state_update_channel(st, room, levels[1][1], levels[1][2]), room, Tail(levels))

\* The mutated dispatcher: the entity of the message's own id is served before
\* the per-channel applications of a scene.
state_update_own_first(st, m) ==
    CASE m.kind = "channel" -> state_update_channel(st, m.room, m.channel, m.brightness)
      [] m.kind = "scene" ->
            fan_out(apply_brightness(st, message_unique_id(m.room, m.channel),
                                     convert_to_brightness(m.scene)),
                    m.room, get_channel_levels(m.room, m.scene))
      [] OTHER -> apply_brightness(st, message_unique_id(m.room, m.channel), 0)

\* _state_update(bridge, status_message)
state_update(st, m) ==
    CASE m.kind = "channel" -> state_update_channel(st, m.room, m.channel, m.brightness)
      [] m.kind = "scene" ->
            apply_brightness(fan_out(st, m.room, get_channel_levels(m.room, m.scene)),
                             message_unique_id(m.room, m.channel),
                             convert_to_brightness(m.scene))
      [] OTHER -> apply_brightness(st, message_unique_id(m.room, m.channel), 0)

\* One turn of the loop of listen_for_state_updates(bridge): the awaited
\* message arrives and is dispatched if it is a StatusMessage.
listener_dispatch(t, m) ==
    LET st == [b |-> brightness, p |-> percentage, log |-> <<>>]
        out == IF IsStatusMessage(m) THEN state_update(st, m) ELSE st
    IN /\ t \in 1..Len(tasks)
       /\ tasks[t] = "listening"
       /\ dispatched < MaxDispatch
       /\ brightness' = out.b
       /\ percentage' = out.p
       /\ applied' = out.log
       /\ dispatched' = dispatched + 1
       /\ last' = Step("dispatch", None, m, t, FALSE)
       /\ UNCHANGED <<registryVars, taskVars, fanVars>>

\* ---------------------------------------------------------------- fan entity

\* Percentages the modelled commands ask for.
Percentages == {0, 50, 100}

Outcomes == {"ok", "RakoBridgeError", "TimeoutError"}

\* "int((percentage / 100) * 255) if percentage > 0 else 0"
percentage_to_brightness(p) == IF p > 0 THEN (p * 255) \div 100 ELSE 0

\* python_rako.helpers.convert_to_scene(brightness): the scene whose level is
\* the nearest one at or above the brightness.
convert_to_scene(b) ==
    CASE b = 0 -> 0
      [] b \in 1..63 -> 4
      [] b \in 64..127 -> 3
      [] b \in 128..191 -> 2
      [] OTHER -> 1

\* What async_set_percentage sends: RakoRoomFan a scene of its room,
\* RakoChannelFan a brightness of its channel.
Command(f, p) ==
    IF ChannelOf(f) = 0
    THEN Msg("set_room_scene", RoomOf(f), 0, 0, convert_to_scene(percentage_to_brightness(p)))
    ELSE Msg("set_channel_brightness", RoomOf(f), ChannelOf(f), percentage_to_brightness(p), 0)

\* The mutated handler: every failure is logged.
logs_error_always(avail) == TRUE

\* "if self._available: _LOGGER.exception(...)"
logs_error(avail) == avail

\* RakoFan.is_on; _percentage is an int from the constructor on, never None.
is_on(f) == percentage[f] > 0

\* The mutated handler: the cached percentage is written before the command
\* is awaited, so a failed command has changed it too.
async_set_percentage_optimistic(f, p, outcome) ==
    /\ outcome # "ok" => failRun[f] < MaxRun
    /\ percentage' = [percentage EXCEPT ![f] = p]
    /\ available' = [available EXCEPT ![f] = (outcome = "ok")]
    /\ errorLogs' = [errorLogs EXCEPT ![f] =
                        IF outcome = "ok" THEN 0
                        ELSE IF available[f] THEN @ + 1 ELSE @]
    /\ failRun' = [failRun EXCEPT ![f] = IF outcome = "ok" THEN 0 ELSE @ + 1]
    /\ last' = [Step("set_percentage", f, Command(f, p), 0, FALSE) EXCEPT !.op =
                   IF outcome = "ok" THEN "set_percentage_ok" ELSE "set_percentage_failed"]
    /\ UNCHANGED <<registryVars, taskVars, brightness, dispatchVars>>

\* RakoRoomFan.async_set_percentage / RakoChannelFan.async_set_percentage, at
\* the completion of the awaited command: it returned in time ("ok"), raised
\* RakoBridgeError, or asyncio.wait_for raised TimeoutError after 3 seconds.
async_set_percentage(f, p, outcome) ==
    /\ outcome # "ok" => failRun[f] < MaxRun
    /\ percentage' = IF outcome = "ok" THEN [percentage EXCEPT ![f] = p] ELSE percentage
    /\ available' = [available EXCEPT ![f] = (outcome = "ok")]
    /\ errorLogs' = [errorLogs EXCEPT ![f] =
                        IF outcome = "ok" THEN 0
                        ELSE IF logs_error(available[f]) THEN @ + 1 ELSE @]
    /\ failRun' = [failRun EXCEPT ![f] = IF outcome = "ok" THEN 0 ELSE @ + 1]
    /\ last' = [Step("set_percentage", f, Command(f, p), 0, FALSE) EXCEPT !.op =
                   IF outcome = "ok" THEN "set_percentage_ok" ELSE "set_percentage_failed"]
    /\ UNCHANGED <<registryVars, taskVars, brightness, dispatchVars>>

\* ---------------------------------------------------------- specifications

\* hass.data[DOMAIN][mac] as the integration sets it up: both sub-maps empty
\* and no listener task.
InitDomainEntryData ==
    /\ lightMap = <<>>
    /\ fanMap = <<>>
    /\ listenerTask = 0
    /\ tasks = <<>>
    /\ calls = <<>>

\* The entities as constructed: nothing cached for their rooms, available.
InitEntities ==
    /\ brightness = [l \in Lights |-> 0]
    /\ percentage = [f \in Fans |-> 0]
    /\ available = [f \in Fans |-> TRUE]
    /\ errorLogs = [f \in Fans |-> 0]
    /\ failRun = [f \in Fans |-> 0]

InitHistory ==
    /\ dispatched = 0
    /\ applied = <<>>
    /\ last = Step("init", None, NoMsg, 0, FALSE)

Init == InitDomainEntryData /\ InitEntities /\ InitHistory

Next ==
    \/ \E e \in Entities : register_for_state_updates(e)
    \/ \E e \in Entities : deregister_for_state_updates(e)
    \/ \E i \in 1..MaxSuspended : deregister_return(i)
    \/ \E t \in 1..MaxTasks : listener_start(t)
    \/ \E t \in 1..MaxTasks : listener_cancelled(t)
    \/ \E t \in 1..MaxTasks : listener_error(t)

Spec == Init /\ [][Next]_vars

\* Registries the calls above lead to while one listener task is listening.
SubMaps(S) == UNION {[D -> S] : D \in SUBSET {unique_id(e) : e \in S}}

Registries ==
    {r \in SubMaps(Lights) \X SubMaps(Fans) :
        /\ \A id \in DOMAIN r[1] : unique_id(r[1][id]) = id
        /\ \A id \in DOMAIN r[2] : unique_id(r[2][id]) = id
        /\ RegistrySize(r[1], r[2]) > 0}

\* The dispatcher at work: some entities are registered, the listener task
\* listens and the bridge pushes messages.
InitDispatch ==
    /\ \E r \in Registries : lightMap = r[1] /\ fanMap = r[2]
    /\ listenerTask = 1
    /\ tasks = <<"listening">>
    /\ calls = <<>>
    /\ InitEntities
    /\ InitHistory

NextDispatch == \E m \in Messages : listener_dispatch(1, m)

SpecDispatch == InitDispatch /\ [][NextDispatch]_vars

\* Every protocol level pushed to a registered channel fan.
LevelMsgs == {Msg("channel", 1, 1, b, 0) : b \in 0..255}

InitLevels ==
    /\ lightMap = <<>>
    /\ fanMap = [id \in {unique_id(f) : f \in Fans} |-> CHOOSE f \in Fans : unique_id(f) = id]
    /\ listenerTask = 1
    /\ tasks = <<"listening">>
    /\ calls = <<>>
    /\ InitEntities
    /\ InitHistory

NextLevels == \E m \in LevelMsgs : listener_dispatch(1, m)

SpecLevels == InitLevels /\ [][NextLevels]_vars

\* The fans in use: commands complete, and the bridge pushes their levels back.
FanMsgs == {Msg("channel", 1, c, b, 0) : c \in {0, 1}, b \in Levels}

NextFan ==
    \/ \E f \in Fans, p \in Percentages, o \in Outcomes : async_set_percentage(f, p, o)
    \/ \E m \in FanMsgs : listener_dispatch(1, m)

SpecFan == InitLevels /\ [][NextFan]_vars

\* ------------------------------------------------------------------- claims

LiveTasks == {t \in 1..Len(tasks) : tasks[t] \in Live}

RegistryEmpty == RegistrySize(lightMap, fanMap) = 0

\* The entity is the one its sub-map holds under its unique id.
Registered(e) ==
    IF HasBrightness(e)
    THEN unique_id(e) \in DOMAIN lightMap /\ lightMap[unique_id(e)] = e
    ELSE unique_id(e) \in DOMAIN fanMap /\ fanMap[unique_id(e)] = e

\* The step is the dispatch of message m.
DispatchStep(m) == last'.op = "dispatch" /\ last'.msg = m /\ dispatched' = dispatched + 1

TargetId(m) == create_unique_id(m.room, m.channel)

\* The ChannelStatus applications a scene message stands for, in cache order.
ExpectedApplied(m) ==
    LET levels == get_channel_levels(m.room, m.scene)
    IN [i \in 1..Len(levels) |-> <<m.room, levels[i][1], levels[i][2]>>]

\* The unique ids a scene message fans out to.
ListedIds(m) ==
    IF m.kind = "scene"
    THEN {create_unique_id(m.room, get_channel_levels(m.room, m.scene)[i][1]) :
             i \in 1..Len(get_channel_levels(m.room, m.scene))}
    ELSE {}

\* The entity holds the level: a light as brightness, a fan as the percentage
\* the dispatcher converts it to.
HoldsLevel(e, level) ==
    IF HasBrightness(e) THEN brightness[e] = level
    ELSE percentage[e] = brightness_to_percentage(level)

\* C1: after every completed register/deregister call (no call suspended, no
\* listener task ended by an error), the bridge has a live listener task if
\* and only if the registry is non-empty.
C1_TaskIffRegistryNonEmpty ==
    (/\ last.op \in {"register", "deregister", "deregister_return"}
     /\ calls = <<>>
     /\ \A t \in 1..Len(tasks) : tasks[t] # "failed")
    => ((LiveTasks # {}) <=> ~RegistryEmpty)

\* C2: in every reachable state at most one listener task of the bridge is
\* live.
C2_AtMostOneLiveTask == Cardinality(LiveTasks) <= 1

\* C3: a deregister call that empties the registry while the bridge's listener
\* task is live cancels that task and suspends; it returns only once the task
\* has ended cancelled, and raises nothing. A call that ran the stop and
\* returned without suspending found the task already ended.
C3_DeregisterAwaitsCancelledTask ==
    /\ last.op = "deregister_suspend" => tasks[last.task] = "cancelling"
    /\ last.op = "deregister_return" => tasks[last.task] = "cancelled" /\ ~last.raised
    /\ (last.op = "deregister" /\ last.task # 0) => tasks[last.task] \in Done

C3_Witness ==
    /\ last.op = "deregister_return"
    /\ RegistryEmpty
    /\ tasks[last.task] = "cancelled"

\* C4 as stated: right after register(entity), the combined lookup of the
\* entity's unique id returns that entity.
C4_LookupReturnsRegistered ==
    last.op = "register" => get_listening_entity(unique_id(last.ent)) = last.ent

\* C4 amended: right after register(entity) the entity is the entry of its own
\* sub-map (an earlier entry is overwritten), and the combined lookup returns
\* it, except that a light whose id is also in the fan sub-map is shadowed by
\* the fan entry.
C4_LookupAfterRegister ==
    last.op = "register" =>
        /\ Registered(last.ent)
        /\ get_listening_entity(unique_id(last.ent)) =
              IF HasBrightness(last.ent) /\ unique_id(last.ent) \in DOMAIN fanMap
              THEN fanMap[unique_id(last.ent)]
              ELSE last.ent

C4_Witness ==
    /\ last.op = "register"
    /\ last.ent = "L11b"
    /\ get_listening_entity(unique_id("L11b")) = "L11b"
    /\ RegistrySize(lightMap, fanMap) >= 2

\* C5 as stated: for an id in both sub-maps the combined lookup returns the
\* light entry.
C5_LightEntryWins ==
    \A id \in DOMAIN lightMap \cap DOMAIN fanMap : get_listening_entity(id) = lightMap[id]

\* C5 amended: for an id in both sub-maps the combined lookup returns the fan
\* entry.
C5_FanEntryWins ==
    \A id \in DOMAIN lightMap \cap DOMAIN fanMap : get_listening_entity(id) = fanMap[id]

C5_Witness ==
    /\ unique_id("L11") \in DOMAIN lightMap \cap DOMAIN fanMap
    /\ get_listening_entity(unique_id("L11")) = "F11"

\* C6 as stated: dispatching ChannelStatus(room, channel, b) sets the
\* brightness of the registered light of that id to b and changes no other
\* entity and no registry entry.
C6_ChannelSetsLight ==
    [][\A m \in ChannelMsgs : \A e \in Lights :
          (DispatchStep(m) /\ Registered(e) /\ unique_id(e) = TargetId(m)) =>
              /\ brightness' = [brightness EXCEPT ![e] = m.brightness]
              /\ percentage' = percentage
              /\ UNCHANGED registryVars]_vars

\* C6 amended: the same, provided no fan is registered under the id; if one
\* is, the fan takes the level as a percentage and the light keeps its
\* brightness. Nothing else changes in either case.
C6_ChannelSetsResolvedEntity ==
    [][\A m \in ChannelMsgs : \A e \in Lights :
          (DispatchStep(m) /\ Registered(e) /\ unique_id(e) = TargetId(m)) =>
              /\ IF TargetId(m) \in DOMAIN fanMap
                 THEN /\ percentage' = [percentage EXCEPT ![fanMap[TargetId(m)]] =
                                           brightness_to_percentage(m.brightness)]
                      /\ brightness' = brightness
                 ELSE /\ brightness' = [brightness EXCEPT ![e] = m.brightness]
                      /\ percentage' = percentage
              /\ UNCHANGED registryVars]_vars

C6_Witness ==
    /\ last.op = "dispatch"
    /\ last.msg = Msg("channel", 1, 1, 255, 0)
    /\ Registered("L11")
    /\ unique_id("L11") \notin DOMAIN fanMap
    /\ Registered("L12")
    /\ brightness["L11"] = 255
    /\ brightness["L12"] = 0

\* C7 as stated: a SceneStatus dispatch applies one ChannelStatus per cached
\* (channel, level) pair, in cache order, and every registered channel entity
\* of the room then holds the level listed for its channel.
C7_SceneSetsEveryRegistered ==
    (last.op = "dispatch" /\ last.msg.kind = "scene") =>
        /\ applied = ExpectedApplied(last.msg)
        /\ \A e \in Entities : \A i \in 1..Len(applied) :
              (Registered(e) /\ unique_id(e) = create_unique_id(applied[i][1], applied[i][2]))
                  => HoldsLevel(e, applied[i][3])

\* C7 amended: one ChannelStatus per cached pair, in cache order, and every
\* entity the combined lookup returns for a listed channel other than the
\* message's own then holds the level listed for it (a light shadowed by a
\* fan of its id is not updated).
C7_SceneSetsEveryResolved ==
    (last.op = "dispatch" /\ last.msg.kind = "scene") =>
        /\ applied = ExpectedApplied(last.msg)
        /\ \A i \in 1..Len(applied) :
              LET id == create_unique_id(applied[i][1], applied[i][2])
                  e == get_listening_entity(id)
              IN (e # None /\ id # TargetId(last.msg)) => HoldsLevel(e, applied[i][3])

C7_Witness ==
    /\ last.op = "dispatch"
    /\ last.msg = Msg("scene", 1, 0, 0, 2)
    /\ applied = <<<<1, 2, 255>>, <<1, 1, 64>>>>
    /\ get_listening_entity(create_unique_id(1, 1)) = "L11"
    /\ get_listening_entity(create_unique_id(1, 2)) = "L12"
    /\ brightness["L11"] = 64
    /\ brightness["L12"] = 255

\* C8 as stated: a level b pushed to a registered fan leaves its percentage at
\* b / 255 * 100 rounded to the nearest integer.
C8_PercentageIsRounded ==
    last.op = "dispatch" =>
        percentage["F11"] = brightness_to_percentage_rounded(last.msg.brightness)

\* C8 amended: the percentage is b * 100 / 255 with the fraction dropped: the
\* integer p in 0..100 with p <= b * 100 / 255 < p + 1.
C8_PercentageIsTruncated ==
    last.op = "dispatch" =>
        /\ percentage["F11"] \in 0..100
        /\ 255 * percentage["F11"] <= 100 * last.msg.brightness
        /\ 100 * last.msg.brightness < 255 * (percentage["F11"] + 1)

C8_Witness ==
    /\ last.op = "dispatch"
    /\ last.msg.brightness = 127
    /\ percentage["F11"] = 49

\* C9 as stated: the dispatch of a status message whose own id has no
\* registered entity changes no entity, no registry entry and no task.
C9_AbsentTargetChangesNothing ==
    [][\A m \in Messages :
          (DispatchStep(m) /\ IsStatusMessage(m) /\ get_listening_entity(TargetId(m)) = None)
              => UNCHANGED <<entityVars, fanVars, registryVars, taskVars>>]_vars

\* C9 amended: such a dispatch changes no registry entry, no availability and
\* no task (the listener keeps listening), and no entity other than those a
\* scene message's per-channel applications address.
C9_AbsentTargetChangesOnlyFanOut ==
    [][\A m \in Messages :
          (DispatchStep(m) /\ IsStatusMessage(m) /\ get_listening_entity(TargetId(m)) = None)
              => /\ UNCHANGED <<fanVars, registryVars, taskVars>>
                 /\ tasks'[last'.task] = "listening"
                 /\ \A e \in Entities :
                       unique_id(e) \notin ListedIds(m) =>
                           IF HasBrightness(e) THEN brightness'[e] = brightness[e]
                           ELSE percentage'[e] = percentage[e]]_vars

C9_Witness ==
    /\ last.op = "dispatch"
    /\ last.msg = Msg("channel", 2, 1, 255, 0)
    /\ get_listening_entity(TargetId(last.msg)) = None
    /\ Registered("L11")
    /\ brightness["L11"] = 0
    /\ tasks[last.task] = "listening"

\* C10: while a fan is in a run of failed commands it is unavailable and
\* exactly one error was logged in the run; after a successful command (and
\* before any command) it is available.
C10_FailureRunLogsOnce ==
    \A f \in Fans :
        /\ failRun[f] > 0 => (~available[f] /\ errorLogs[f] = 1)
        /\ failRun[f] = 0 => (available[f] /\ errorLogs[f] = 0)
        /\ (last.op = "set_percentage_ok" /\ last.ent = f) => available[f]
        /\ (last.op = "set_percentage_failed" /\ last.ent = f) => ~available[f]

C10_Witness ==
    /\ last.op = "set_percentage_failed"
    /\ last.ent = "F11"
    /\ failRun["F11"] = 2
    /\ errorLogs["F11"] = 1
    /\ ~available["F11"]
    /\ available["F10"]

\* A deregister call for entity e runs in this step (to its return or to its
\* suspension).
DeregisterStep(e) ==
    /\ last'.op \in {"deregister", "deregister_suspend"}
    /\ last'.ent = e
    /\ \/ last' # last
       \/ registryVars' # registryVars
       \/ taskVars' # taskVars

\* A listener task is created in this step.
TaskCreated == Len(tasks') > Len(tasks)

\* C11: no register or deregister call raises to its caller, whatever the
\* state of the listener task.
C11_NoCallRaises ==
    last.op \in {"register", "deregister", "deregister_return"} => ~last.raised

\* C13: once a listener task has ended with an error, a new listener task is
\* created only by a register call that takes the registry from 0 entries to
\* 1 entry.
C13_RestartOnlyOnZeroToOne ==
    [][(TaskCreated /\ \E t \in 1..Len(tasks) : tasks[t] = "failed")
          => (/\ LiveTasks = {}
              /\ RegistrySize(lightMap, fanMap) = 0
              /\ RegistrySize(lightMap', fanMap') = 1)]_vars

\* C15: a deregister call for an entity that is not the entry its sub-map
\* holds leaves the registry and the listener task state unchanged.
C15_DeregisterAbsentIsNoOp ==
    [][\A e \in Entities :
          (DeregisterStep(e) /\ ~Registered(e)) => UNCHANGED <<registryVars, taskVars>>]_vars

\* C16: a register call that takes the registry from 0 entries to 1 entry
\* creates a listener task only when no earlier listener task is still live.
C16_NoStartWhileLive ==
    [][(TaskCreated /\ RegistrySize(lightMap, fanMap) = 0) => LiveTasks = {}]_vars

\* C12: the dispatch of a pushed message that is neither a ChannelStatus nor
\* a SceneStatus changes no entity and leaves the listener listening.
C12_UnknownShapeIgnored ==
    [][\A m \in OtherMsgs :
          DispatchStep(m) =>
              /\ UNCHANGED <<entityVars, fanVars, registryVars>>
              /\ tasks'[last'.task] = "listening"]_vars

\* C14: after the dispatch of a SceneStatus, the entity the lookup returns for
\* the message's own (room, channel) id holds convert_to_brightness(scene), a
\* fan as a percentage, whatever the level cache lists for that channel.
C14_SceneTargetHoldsSceneBrightness ==
    (last.op = "dispatch" /\ last.msg.kind = "scene") =>
        LET e == get_listening_entity(TargetId(last.msg))
        IN e # None => HoldsLevel(e, convert_to_brightness(last.msg.scene))

C14_Witness ==
    /\ last.op = "dispatch"
    /\ last.msg = Msg("scene", 1, 1, 0, 1)
    /\ applied = <<<<1, 1, 128>>, <<1, 2, 0>>>>
    /\ get_listening_entity(create_unique_id(1, 1)) = "L11"
    /\ brightness["L11"] = 255

\* A set-percentage command of fan f completes in this step.
CommandStep(f, op) ==
    /\ last'.op = op
    /\ last'.ent = f
    /\ \/ last' # last
       \/ failRun' # failRun
       \/ percentage' # percentage

\* C17: when a channel fan's command has succeeded and the bridge pushes back
\* a ChannelStatus with the brightness the command sent, the dispatch leaves
\* the fan's percentage at the commanded value.
C17_RoundTripKeepsPercentage ==
    [][\A m \in FanMsgs :
          (/\ DispatchStep(m)
           /\ last.op = "set_percentage_ok"
           /\ last.ent = "F11"
           /\ last.msg.kind = "set_channel_brightness"
           /\ m.room = last.msg.room
           /\ m.channel = last.msg.channel
           /\ m.brightness = last.msg.brightness)
              => percentage'["F11"] = percentage["F11"]]_vars

\* C18: after a level b is dispatched to a registered fan, the fan is on if
\* and only if b > 0, and its percentage lies in 0..100.
C18_OnIffLevelNonZero ==
    last.op = "dispatch" =>
        /\ is_on("F11") <=> last.msg.brightness > 0
        /\ percentage["F11"] \in 0..100

\* C19: a failed command leaves every cached percentage as it was; a fan's
\* cached percentage changes only in a successful command of that fan or in a
\* dispatch; a dispatch changes no availability flag.
C19_PercentageAndAvailabilityFrames ==
    [][/\ \A f \in Fans : CommandStep(f, "set_percentage_failed") => percentage' = percentage
       /\ \A f \in Fans :
             percentage'[f] # percentage[f] =>
                 \/ last'.op = "set_percentage_ok" /\ last'.ent = f
                 \/ last'.op = "dispatch" /\ dispatched' = dispatched + 1
       /\ \A m \in FanMsgs : DispatchStep(m) => available' = available]_vars

C19_Witness ==
    /\ last.op = "set_percentage_failed"
    /\ last.ent = "F11"
    /\ last.msg.brightness = 255
    /\ percentage["F11"] = 50
    /\ ~available["F11"]

====
